---- MODULE Spec2Model ----
(***************************************************************************)
(* Model of the document indexer: ReadDirectory fans one goroutine per     *)
(* discovered file out over an unbuffered channel, ReduceDocuments folds   *)
(* the results into a SearchEngine, and RelevanceLookup ranks the          *)
(* documents of that SearchEngine for a term by tf-idf.                    *)
(*                                                                         *)
(* A DocumentID (a Go string) is a sequence of byte values, compared as Go *)
(* compares strings.  A file is a sequence of lines, a line the sequence   *)
(* of words WordRegex.FindAllString finds in it.  A float64 tf-idf score   *)
(* is kept as the exact ratio count/total together with the two integers   *)
(* of ln(numDocuments/numDocumentsContaining); see TfIdfLess.              *)
(***************************************************************************)
EXTENDS Integers, Sequences, FiniteSets, TLC

VARIABLES
    dir,            \* the directory: whether os.ReadDir fails, and the files below it
    files,          \* ReadDirectory: the []DocumentID FindFiles returned
    fs,             \* the file system: what os.Open and the Scanner do per file
    pc,             \* ReadDirectory: the statement the coordinator is at
    i,              \* ReadDirectory: the index of the range loop over files
    task,           \* one record per goroutine started by wgFrequencies.Go
    wg,             \* wgFrequencies: the WaitGroup counter
    chClosed,       \* chFrequencies has been closed
    rpc,            \* ReduceDocuments: the statement the reducer is at
    rcv,            \* ReduceDocuments: the loop variable document
    searchEngine,   \* ReduceDocuments: the map under construction
    result,         \* ReadDirectory: the SearchEngine it returns
    q,              \* the last call of RelevanceLookup on the returned index
    call            \* the last direct call of one of the other ranking methods

vars == <<dir, files, fs, pc, i, task, wg, chClosed, rpc, rcv, searchEngine, result, q, call>>

----------------------------------------------------------------------------
(* Bounds and input sets *)

MaxDocs == 3

\* The longest sequence of deliveries handed to ReduceDocuments on its own.
MaxDeliveries == 3

\* The paths below the indexed directory, in the order FindFiles walks them.
Paths == << <<2>>, <<1, 2>>, <<1>>, <<1, 1>> >>

DocIDs == {Paths[n] : n \in 1..Len(Paths)}

\* Files on disk.  scanned is the number of lines scanner.Scan() yields
\* before it returns false, scanErr whether scanner.Err() is then non-nil.
Denied  == [openOk |-> FALSE, lines |-> << >>, scanned |-> 0, scanErr |-> FALSE]
CatDog  == [openOk |-> TRUE, lines |-> << <<"Cat", "dog">>, <<"cat">> >>,
            scanned |-> 2, scanErr |-> FALSE]
CatDogBroken == [openOk |-> TRUE, lines |-> << <<"Cat", "dog">>, <<"cat">> >>,
            scanned |-> 1, scanErr |-> TRUE]
Dog     == [openOk |-> TRUE, lines |-> << <<"dog">> >>, scanned |-> 1, scanErr |-> FALSE]
Blank   == [openOk |-> TRUE, lines |-> << <<>> >>, scanned |-> 1, scanErr |-> FALSE]

FileMenu == {Denied, CatDog, CatDogBroken, Dog, Blank}

\* The terms RelevanceLookup is asked about; "emu" is in no file.
Terms == {"cat", "dog", "emu"}

None == [none |-> TRUE]

----------------------------------------------------------------------------
(* Helpers on Go values *)

\* a < b on Go strings: bytewise lexicographic, a proper prefix is smaller.
RECURSIVE StrLess(_, _)
StrLess(a, b) ==
    IF b = << >> THEN FALSE
    ELSE IF a = << >> THEN TRUE
    ELSE IF Head(a) # Head(b) THEN Head(a) < Head(b)
    ELSE StrLess(Tail(a), Tail(b))

\* m[k] = v on a Go map.
MapPut(m, k, v) == [x \in (DOMAIN m) \cup {k} |-> IF x = k THEN v ELSE m[x]]

EmptyMap == [x \in {} |-> 0]

\* The count of term in a DocTermFrequency, 0 when it is no key.
Count(terms, term) == IF term \in DOMAIN terms THEN terms[term] ELSE 0

\* strings.ToLower on the words of the input files.
ToLower(w) == CASE w = "Cat" -> "cat"
                [] w = "Dog" -> "dog"
                [] OTHER -> w

\* The sub-sequence of Paths selected by the index set S, in walk order.
RECURSIVE Pick(_, _)
Pick(S, n) ==
    IF n > Len(Paths) THEN << >>
    ELSE IF n \in S THEN <<Paths[n]>> \o Pick(S, n + 1)
    ELSE Pick(S, n + 1)

----------------------------------------------------------------------------
(* Frequencies: the counting part *)

\* The inner loop over the words of one line.
RECURSIVE CountLine(_, _)
CountLine(wordCounts, words) ==
    IF words = << >> THEN wordCounts
    ELSE LET lowercaseWord == ToLower(Head(words))
             next == IF lowercaseWord \in DOMAIN wordCounts
                     THEN MapPut(wordCounts, lowercaseWord, wordCounts[lowercaseWord] + 1)
                     ELSE MapPut(wordCounts, lowercaseWord, 1)
         IN CountLine(next, Tail(words))

\* The outer loop over the lines the scanner yielded.
RECURSIVE CountLines(_, _)
CountLines(wordCounts, lines) ==
    IF lines = << >> THEN wordCounts
    ELSE CountLines(CountLine(wordCounts, Head(lines)), Tail(lines))

\* lines after the for scanner.Scan() loop: what was read before Scan
\* returned false.  scanner.Err() is not consulted.
ScannedLines(f) == SubSeq(f.lines, 1, f.scanned)

----------------------------------------------------------------------------
(* ReadDirectory, Frequencies and ReduceDocuments *)

NoTask == [pc |-> "unborn", document |-> << >>, wordCounts |-> EmptyMap, diag |-> FALSE]

NoQuery == [term |-> "", order |-> << >>, docIDs |-> << >>, result |-> << >>,
            err |-> FALSE, panicked |-> FALSE]

NoCall == [fn |-> "", term |-> "", document |-> << >>, order |-> << >>, ret |-> None]

\* The state in which ReadDirectory is called.  Either os.ReadDir fails
\* somewhere in the tree, or the tree holds at most MaxDocs of the Paths.
Init ==
    /\ \/ dir = [err |-> TRUE, entries |-> << >>]
       \/ \E S \in SUBSET (1..Len(Paths)) :
             /\ Cardinality(S) <= MaxDocs
             /\ dir = [err |-> FALSE, entries |-> Pick(S, 1)]
    /\ fs \in [{dir.entries[n] : n \in 1..Len(dir.entries)} -> FileMenu]
    /\ files = << >>
    /\ pc = "FindFiles"
    /\ i = 1
    /\ task = << >>
    /\ wg = 0
    /\ chClosed = FALSE
    /\ rpc = "unborn"
    /\ rcv = None
    /\ searchEngine = EmptyMap
    /\ result = None
    /\ q = NoQuery
    /\ call = NoCall

Tasks == 1..Len(files)

\* The loop variable captured by the closure all goroutines would share.
LaunchDoc_shared(fl, k) == fl[Len(fl)]

\* The DocumentID the closure of iteration k hands to Frequencies: file is
\* a fresh variable in every iteration of the range loop.
LaunchDoc(fl, k) == fl[k]

\* The reducer started only after the WaitGroup has been waited for.
NextPc_waitFirst(p) ==
    CASE p = "Launch"      -> "Wait"
      [] p = "Wait"        -> "InitReducer"
      [] p = "InitReducer" -> "Close"
      [] p = "Close"       -> "Recv"
      [] p = "Recv"        -> "returned"

\* The channel closed before the WaitGroup has been waited for.
NextPc_closeFirst(p) ==
    CASE p = "Launch"      -> "InitReducer"
      [] p = "InitReducer" -> "Close"
      [] p = "Close"       -> "Wait"
      [] p = "Wait"        -> "Recv"
      [] p = "Recv"        -> "returned"

\* The statement order of ReadDirectory after FindFiles.
NextPc(p) ==
    CASE p = "Launch"      -> "InitReducer"
      [] p = "InitReducer" -> "Wait"
      [] p = "Wait"        -> "Close"
      [] p = "Close"       -> "Recv"
      [] p = "Recv"        -> "returned"

\* A Wait that does not wait.
WaitDone_noWait == TRUE

\* wgFrequencies.Wait() returns when the counter is zero.
WaitDone == wg = 0

\* A reducer that keeps the first delivery of a DocumentID.
Store_keepFirst(se, document) ==
    IF document.document \in DOMAIN se THEN se
    ELSE MapPut(se, document.document, document.frequency)

\* A map made anew for every received document.
Store_fresh(se, document) == MapPut(EmptyMap, document.document, document.frequency)

\* The body of the range loop of ReduceDocuments.
Store(se, document) == MapPut(se, document.document, document.frequency)

\* A ReadDirectory that goes on after a failed FindFiles.
AfterFindFiles_ignoreErr(err) == "Launch"

\* files, err := FindFiles(directory); if err != nil { return nil, err }
AfterFindFiles(err) == IF err THEN "errReturned" ELSE "Launch"

\* ReadDirectory: the call of FindFiles and the test of its error.
FindFiles ==
    /\ pc = "FindFiles"
    /\ files' = dir.entries
    /\ task' = [t \in 1..Len(dir.entries) |-> NoTask]
    /\ pc' = AfterFindFiles(dir.err)
    /\ UNCHANGED <<dir, fs, i, wg, chClosed, rpc, rcv, searchEngine, result, q, call>>

\* main: ReadDirectory returned an error; it is printed and os.Exit(1) is called.
MainExit ==
    /\ pc = "errReturned"
    /\ pc' = "exit1"
    /\ UNCHANGED <<dir, files, fs, i, task, wg, chClosed, rpc, rcv, searchEngine, result, q, call>>

\* wgFrequencies.Go(func() { Frequencies(file, chFrequencies) })
Launch ==
    /\ pc = "Launch"
    /\ i <= Len(files)
    /\ task' = [task EXCEPT ![i] = [NoTask EXCEPT !.pc = "ReadFile",
                                                  !.document = LaunchDoc(files, i)]]
    /\ wg' = wg + 1
    /\ i' = i + 1
    /\ UNCHANGED <<dir, files, fs, pc, chClosed, rpc, rcv, searchEngine, result, q, call>>

\* The range loop over files is exhausted.
LaunchEnd ==
    /\ pc = "Launch"
    /\ i > Len(files)
    /\ pc' = NextPc(pc)
    /\ UNCHANGED <<dir, files, fs, i, task, wg, chClosed, rpc, rcv, searchEngine, result, q, call>>

\* go ReduceDocuments(chFrequencies, chSearchEngine)
InitReducer ==
    /\ pc = "InitReducer"
    /\ rpc' = "range"
    /\ pc' = NextPc(pc)
    /\ UNCHANGED <<dir, files, fs, i, task, wg, chClosed, rcv, searchEngine, result, q, call>>

\* wgFrequencies.Wait()
Wait ==
    /\ pc = "Wait"
    /\ WaitDone
    /\ pc' = NextPc(pc)
    /\ UNCHANGED <<dir, files, fs, i, task, wg, chClosed, rpc, rcv, searchEngine, result, q, call>>

\* close(chFrequencies)
Close ==
    /\ pc = "Close"
    /\ chClosed' = TRUE
    /\ pc' = NextPc(pc)
    /\ UNCHANGED <<dir, files, fs, i, task, wg, rpc, rcv, searchEngine, result, q, call>>

\* searchEngine := <-chSearchEngine, met by the reducer's deferred
\* output <- searchEngine; then return searchEngine, nil.
Recv ==
    /\ pc = "Recv"
    /\ rpc = "publish"
    /\ result' = searchEngine
    /\ rpc' = "done"
    /\ pc' = NextPc(pc)
    /\ UNCHANGED <<dir, files, fs, i, task, wg, chClosed, rcv, searchEngine, q, call>>

\* Frequencies: os.Open succeeds.
OpenOk(t) ==
    /\ task[t].pc = "ReadFile"
    /\ fs[task[t].document].openOk
    /\ task' = [task EXCEPT ![t].pc = "Scan"]
    /\ UNCHANGED <<dir, files, fs, pc, i, wg, chClosed, rpc, rcv, searchEngine, result, q, call>>

\* Frequencies: os.Open fails; the error is printed to os.Stderr and the
\* function returns, which runs the wg.Done() of WaitGroup.Go.
OpenFail(t) ==
    /\ task[t].pc = "ReadFile"
    /\ ~fs[task[t].document].openOk
    /\ task' = [task EXCEPT ![t].pc = "done", ![t].diag = TRUE]
    /\ wg' = wg - 1
    /\ UNCHANGED <<dir, files, fs, pc, i, chClosed, rpc, rcv, searchEngine, result, q, call>>

\* Frequencies: the scanner loop and the word count.
ScanCount(t) ==
    /\ task[t].pc = "Scan"
    /\ task' = [task EXCEPT
                  ![t].pc = "Publish",
                  ![t].wordCounts = CountLines(EmptyMap, ScannedLines(fs[task[t].document]))]
    /\ UNCHANGED <<dir, files, fs, pc, i, wg, chClosed, rpc, rcv, searchEngine, result, q, call>>

\* ch <- DocumentFrequencyMapping{document, wordCounts} meets the receive
\* of for document := range documents (the channel is unbuffered).
RangeRecv(t) ==
    /\ task[t].pc = "Publish"
    /\ rpc = "range"
    /\ ~chClosed
    /\ rcv' = [document |-> task[t].document, frequency |-> task[t].wordCounts]
    /\ rpc' = "store"
    /\ task' = [task EXCEPT ![t].pc = "sent"]
    /\ UNCHANGED <<dir, files, fs, pc, i, wg, chClosed, searchEngine, result, q, call>>

\* searchEngine[string(document.document)] = document.frequency
RangeStore ==
    /\ rpc = "store"
    /\ searchEngine' = Store(searchEngine, rcv)
    /\ rcv' = None
    /\ rpc' = "range"
    /\ UNCHANGED <<dir, files, fs, pc, i, task, wg, chClosed, result, q, call>>

\* A reducer that leaves its loop without the channel being closed.
RangeEnd_early ==
    /\ rpc = "range"
    /\ rpc' = "publish"
    /\ UNCHANGED <<dir, files, fs, pc, i, task, wg, chClosed, rcv, searchEngine, result, q, call>>

\* The range loop ends on the closed channel; the deferred send is next.
RangeEnd ==
    /\ rpc = "range"
    /\ chClosed
    /\ rpc' = "publish"
    /\ UNCHANGED <<dir, files, fs, pc, i, task, wg, chClosed, rcv, searchEngine, result, q, call>>

\* Frequencies returns after its send: file.Close(), then wg.Done().
TaskReturn(t) ==
    /\ task[t].pc = "sent"
    /\ task' = [task EXCEPT ![t].pc = "done"]
    /\ wg' = wg - 1
    /\ UNCHANGED <<dir, files, fs, pc, i, chClosed, rpc, rcv, searchEngine, result, q, call>>

Coordinator == FindFiles \/ MainExit \/ Launch \/ LaunchEnd \/ InitReducer \/ Wait \/ Close \/ Recv

Reducer == RangeStore \/ RangeEnd

Extractor(t) == OpenOk(t) \/ OpenFail(t) \/ ScanCount(t) \/ RangeRecv(t) \/ TaskReturn(t)

NextBuild == Coordinator \/ Reducer \/ \E t \in Tasks : Extractor(t)

BuildSpec == Init /\ [][NextBuild]_vars

----------------------------------------------------------------------------
(* The ranking: IndexLookup, TermFrequency, InverseDocumentFrequency,      *)
(* CountIdf and RelevanceLookup.  order is the order in which a range over *)
(* the map yields its keys, which Go leaves unspecified.                   *)

Perms(S) ==
    {s \in [1..Cardinality(S) -> S] : \A m, n \in 1..Cardinality(S) : s[m] = s[n] => m = n}

RECURSIVE SumCounts(_, _)
SumCounts(terms, keys) ==
    IF keys = {} THEN 0
    ELSE LET key == CHOOSE x \in keys : TRUE
         IN terms[key] + SumCounts(terms, keys \ {key})

\* Every document of the index, whether or not it has the term.
IndexLookup_all(se, term, order) == order

\* IndexLookup: the documents whose terms have the term as a key, in the
\* order the range over the map meets them.
IndexLookup(se, term, order) ==
    SelectSeq(order, LAMBDA doc : term \in DOMAIN se[doc])

\* A TermFrequency without the test for a missing document: the lookup
\* in the map then yields a nil DocTermFrequency, which has no term.
TermFrequency_noCheck(se, term, document) ==
    IF document \notin DOMAIN se \/ term \notin DOMAIN se[document]
    THEN [err |-> FALSE, nil |-> FALSE, num |-> 0, den |-> 1]
    ELSE [err |-> FALSE, nil |-> FALSE, num |-> se[document][term],
          den |-> SumCounts(se[document], DOMAIN se[document])]

\* A TermFrequency whose total is the number of distinct terms.
TermFrequency_distinct(se, term, document) ==
    IF document \notin DOMAIN se THEN [err |-> TRUE, nil |-> TRUE, num |-> 0, den |-> 1]
    ELSE LET terms == se[document] IN
         IF term \notin DOMAIN terms THEN [err |-> FALSE, nil |-> FALSE, num |-> 0, den |-> 1]
         ELSE [err |-> FALSE, nil |-> FALSE, num |-> terms[term],
               den |-> Cardinality(DOMAIN terms)]

\* TermFrequency: the float64 termCount/total as the pair num, den; nil
\* says that the *float64 returned is nil.
TermFrequency(se, term, document) ==
    IF document \notin DOMAIN se THEN [err |-> TRUE, nil |-> TRUE, num |-> 0, den |-> 1]
    ELSE LET terms == se[document] IN
         IF term \notin DOMAIN terms THEN [err |-> FALSE, nil |-> FALSE, num |-> 0, den |-> 1]
         ELSE [err |-> FALSE, nil |-> FALSE, num |-> terms[term],
               den |-> SumCounts(terms, DOMAIN terms)]

\* InverseDocumentFrequency: math.Log(n / k) as the pair n, k.
InverseDocumentFrequency(se, term) ==
    [n |-> Cardinality(DOMAIN se),
     k |-> Cardinality({doc \in DOMAIN se : term \in DOMAIN se[doc]})]

\* CountIdf: the product td * idf, kept as its four integers.
CountIdf(se, term, document) ==
    LET td == TermFrequency(se, term, document) IN
    IF td.err THEN [err |-> TRUE, nil |-> TRUE, num |-> 0, den |-> 1, n |-> 0, k |-> 0]
    ELSE LET idf == InverseDocumentFrequency(se, term)
         IN [err |-> FALSE, nil |-> FALSE, num |-> td.num, den |-> td.den,
             n |-> idf.n, k |-> idf.k]

\* The float64 a score (num/den) * ln(n/k) is: n/0 is +Inf and 0/0 NaN in
\* float64 division, ln(1) is exactly 0, and ln(n/k) > 0 for n > k.
Kind(s) ==
    IF s.k = 0 THEN (IF s.n = 0 \/ s.num = 0 THEN "nan" ELSE "inf")
    ELSE IF s.n = s.k \/ s.num = 0 THEN "zero"
    ELSE "pos"

\* a < b on two float64 scores of one call (one term, one index, so one
\* idf).  Division is correctly rounded and the counts are small, so two
\* ratios are equal as float64 exactly when they are equal as fractions.
TfIdfLess(a, b) ==
    LET ka == Kind(a)
        kb == Kind(b)
    IN CASE ka = "nan" \/ kb = "nan" -> FALSE
         [] ka = "zero" -> kb \in {"pos", "inf"}
         [] ka = "inf"  -> FALSE
         [] OTHER       -> \/ kb = "inf"
                           \/ kb = "pos" /\ a.num * b.den < b.num * a.den

\* A comparator that orders by score alone.
Cmp_noTiebreak(a, b) ==
    IF TfIdfLess(a.tfidf, b.tfidf) THEN -1
    ELSE IF TfIdfLess(b.tfidf, a.tfidf) THEN 1
    ELSE 0

\* The comparator handed to slices.SortFunc; 2 stands for its panic.
Cmp(a, b) ==
    IF TfIdfLess(a.tfidf, b.tfidf) THEN -1
    ELSE IF TfIdfLess(b.tfidf, a.tfidf) THEN 1
    ELSE IF StrLess(a.document, b.document) THEN -1
    ELSE IF StrLess(b.document, a.document) THEN 1
    ELSE 2

Swap(data, m, n) == [data EXCEPT ![m] = data[n], ![n] = data[m]]

\* slices.SortFunc on at most 12 elements is this insertion sort; a panic
\* of the comparator ends it.
RECURSIVE SortInner(_, _)
SortInner(st, j) ==
    IF j <= 1 THEN st
    ELSE LET c == Cmp(st.data[j], st.data[j - 1]) IN
         IF c = 2 THEN [st EXCEPT !.panicked = TRUE]
         ELSE IF c < 0 THEN SortInner([st EXCEPT !.data = Swap(st.data, j, j - 1)], j - 1)
         ELSE st

RECURSIVE SortOuter(_, _)
SortOuter(st, n) ==
    IF st.panicked \/ n > Len(st.data) THEN st
    ELSE SortOuter(SortInner(st, n), n + 1)

SortFunc(docs) == SortOuter([data |-> docs, panicked |-> FALSE], 2)

\* RelevanceLookup: look the candidates up, score them, sort, project.
RelevanceLookup(se, term, order) ==
    LET docIDs == IndexLookup(se, term, order)
        docs   == [n \in 1..Len(docIDs) |->
                     [document |-> docIDs[n], tfidf |-> CountIdf(se, term, docIDs[n])]]
        failed == \E n \in 1..Len(docIDs) : docs[n].tfidf.err
        sorted == SortFunc(docs)
    IN IF failed
       THEN [term |-> term, order |-> order, docIDs |-> docIDs, result |-> << >>,
             err |-> TRUE, panicked |-> FALSE]
       ELSE [term |-> term, order |-> order, docIDs |-> docIDs,
             result |-> IF sorted.panicked THEN << >>
                        ELSE [n \in 1..Len(docIDs) |-> sorted.data[n].document],
             err |-> FALSE, panicked |-> sorted.panicked]

\* A call of RelevanceLookup on the index ReadDirectory returned.
Query ==
    /\ pc = "returned"
    /\ \E term \in Terms, order \in Perms(DOMAIN result) :
          q' = RelevanceLookup(result, term, order)
    /\ call' = NoCall
    /\ UNCHANGED <<dir, files, fs, pc, i, task, wg, chClosed, rpc, rcv, searchEngine, result>>

\* A call of IndexLookup on the index ReadDirectory returned.
CallIndexLookup ==
    /\ pc = "returned"
    /\ \E term \in Terms, order \in Perms(DOMAIN result) :
          call' = [fn |-> "IndexLookup", term |-> term, document |-> << >>,
                   order |-> order, ret |-> IndexLookup(result, term, order)]
    /\ q' = NoQuery
    /\ UNCHANGED <<dir, files, fs, pc, i, task, wg, chClosed, rpc, rcv, searchEngine, result>>

\* A TermFrequency whose lookup of the term stores a zero count for a
\* term the document does not have.
CallTermFrequency_inserts ==
    /\ pc = "returned"
    /\ \E term \in Terms, document \in DocIDs :
          /\ call' = [fn |-> "TermFrequency", term |-> term, document |-> document,
                      order |-> << >>, ret |-> TermFrequency(result, term, document)]
          /\ result' = IF document \in DOMAIN result
                       THEN [result EXCEPT ![document] = MapPut(@, term, Count(@, term))]
                       ELSE result
    /\ q' = NoQuery
    /\ UNCHANGED <<dir, files, fs, pc, i, task, wg, chClosed, rpc, rcv, searchEngine>>

\* A call of TermFrequency on the index, for any DocumentID.
CallTermFrequency ==
    /\ pc = "returned"
    /\ \E term \in Terms, document \in DocIDs :
          call' = [fn |-> "TermFrequency", term |-> term, document |-> document,
                   order |-> << >>, ret |-> TermFrequency(result, term, document)]
    /\ q' = NoQuery
    /\ UNCHANGED <<dir, files, fs, pc, i, task, wg, chClosed, rpc, rcv, searchEngine, result>>

\* A call of InverseDocumentFrequency on the index.
CallInverseDocumentFrequency ==
    /\ pc = "returned"
    /\ \E term \in Terms :
          call' = [fn |-> "InverseDocumentFrequency", term |-> term, document |-> << >>,
                   order |-> << >>, ret |-> InverseDocumentFrequency(result, term)]
    /\ q' = NoQuery
    /\ UNCHANGED <<dir, files, fs, pc, i, task, wg, chClosed, rpc, rcv, searchEngine, result>>

\* A call of CountIdf on the index, for any DocumentID.
CallCountIdf ==
    /\ pc = "returned"
    /\ \E term \in Terms, document \in DocIDs :
          call' = [fn |-> "CountIdf", term |-> term, document |-> document,
                   order |-> << >>, ret |-> CountIdf(result, term, document)]
    /\ q' = NoQuery
    /\ UNCHANGED <<dir, files, fs, pc, i, task, wg, chClosed, rpc, rcv, searchEngine, result>>

\* The calls a user of the index makes; q and call keep the latest one.
Ranker ==
    \/ Query
    \/ CallIndexLookup
    \/ CallTermFrequency
    \/ CallInverseDocumentFrequency
    \/ CallCountIdf

Next == NextBuild \/ Ranker

Spec == Init /\ [][Next]_vars

\* Every goroutine that can take a step eventually takes one.
Fairness ==
    /\ WF_vars(Coordinator)
    /\ WF_vars(Reducer)
    /\ \A t \in 1..Len(Paths) : WF_vars(t \in Tasks /\ Extractor(t))

LiveSpec == BuildSpec /\ Fairness

\* The end-to-end run: the directory holds /a.txt = "cat dog cat" and
\* /b.txt = "dog dog", here the DocumentIDs <<1>> and <<2>>.
FileA == <<1>>
FileB == <<2>>
CatDogCat == [openOk |-> TRUE, lines |-> << <<"cat", "dog", "cat">> >>,
              scanned |-> 1, scanErr |-> FALSE]
DogDog == [openOk |-> TRUE, lines |-> << <<"dog", "dog">> >>,
           scanned |-> 1, scanErr |-> FALSE]

E2EInit ==
    /\ dir = [err |-> FALSE, entries |-> <<FileA, FileB>>]
    /\ fs = (FileA :> CatDogCat @@ FileB :> DogDog)
    /\ files = << >>
    /\ pc = "FindFiles"
    /\ i = 1
    /\ task = << >>
    /\ wg = 0
    /\ chClosed = FALSE
    /\ rpc = "unborn"
    /\ rcv = None
    /\ searchEngine = EmptyMap
    /\ result = None
    /\ q = NoQuery
    /\ call = NoCall

\* The steps of that run: FindFiles succeeds and both files open, so the
\* two error paths are not steps here.
E2ENext ==
    \/ FindFiles \/ Launch \/ LaunchEnd \/ InitReducer \/ Wait \/ Close \/ Recv
    \/ RangeStore \/ RangeEnd
    \/ \E t \in Tasks : OpenOk(t) \/ ScanCount(t) \/ RangeRecv(t) \/ TaskReturn(t)
    \/ Ranker

E2ESpec == E2EInit /\ [][E2ENext]_vars

\* ReduceDocuments on its own: a caller that sends any sequence of at most
\* MaxDeliveries deliveries, the same DocumentID possibly more than once,
\* closes the channel and receives the SearchEngine.  files is the sequence
\* of DocumentIDs to deliver and task[t] the sender of the t-th delivery;
\* the deliveries are made in that order.
Frequency == {("cat" :> 1), ("dog" :> 2), EmptyMap}

ReduceInit ==
    /\ dir = [err |-> FALSE, entries |-> << >>]
    /\ fs = EmptyMap
    /\ \E n \in 0..MaxDeliveries :
          /\ files \in [1..n -> {FileA, FileB}]
          /\ \E frequency \in [1..n -> Frequency] :
                task = [t \in 1..n |->
                          [pc |-> "Publish", document |-> files[t],
                           wordCounts |-> frequency[t], diag |-> FALSE]]
          /\ i = n + 1
          /\ wg = n
    /\ pc = "Wait"
    /\ chClosed = FALSE
    /\ rpc = "range"
    /\ rcv = None
    /\ searchEngine = EmptyMap
    /\ result = None
    /\ q = NoQuery
    /\ call = NoCall

\* The t-th delivery is received once all earlier ones have been.
Deliver(t) ==
    /\ \A u \in 1..(t - 1) : task[u].pc # "Publish"
    /\ RangeRecv(t)

ReduceNext ==
    \/ \E t \in Tasks : Deliver(t) \/ TaskReturn(t)
    \/ RangeStore \/ RangeEnd
    \/ Wait \/ Close \/ Recv

ReduceSpec == ReduceInit /\ [][ReduceNext]_vars

----------------------------------------------------------------------------
(* Properties of the index construction *)

Launched(t) == task[t].pc # "unborn"

\* The task ended by sending its result, not by reporting a failed open.
Delivered(t) == task[t].pc \in {"sent", "done"} /\ ~task[t].diag

TasksOf(d) == {t \in Tasks : Launched(t) /\ task[t].document = d}

\* The read of file f went through: it opened and the scanner met no error.
ReadOk(f) == f.openOk /\ ~f.scanErr

\* C1: ReadDirectory starts exactly one extraction task per discovered
\* DocumentID: at no time are two tasks given the same DocumentID or a task
\* one that was not discovered, and once the launch loop is over every
\* discovered DocumentID has its task.
C1_OneTaskPerDocument ==
    /\ \A t \in Tasks : Launched(t) => \E n \in 1..Len(files) : task[t].document = files[n]
    /\ \A n \in 1..Len(files) : Cardinality(TasksOf(files[n])) <= 1
    /\ pc # "Launch" => \A n \in 1..Len(files) : Cardinality(TasksOf(files[n])) = 1

C1_Witness ==
    /\ pc = "returned"
    /\ Len(files) >= 3
    /\ \A t \in Tasks : task[t].pc = "done"

\* The index the inputs determine: one entry per file that opened, holding
\* the counts of the lines its scanner yielded.
IndexOf(fl, fsys) ==
    [d \in {fl[n] : n \in 1..Len(fl)} \cap {x \in DOMAIN fsys : fsys[x].openOk} |->
        CountLines(EmptyMap, ScannedLines(fsys[d]))]

\* C2: the SearchEngine ReadDirectory returns has as keys exactly the
\* DocumentIDs of the tasks that sent a result, maps each to the counts that
\* very task computed, and is the index the inputs determine, whatever the
\* interleaving was.
C2_IndexIsExactlyTheResults ==
    pc = "returned" =>
        /\ DOMAIN result = {task[t].document : t \in {u \in Tasks : Delivered(u)}}
        /\ \A t \in Tasks : Delivered(t) => result[task[t].document] = task[t].wordCounts
        /\ result = IndexOf(files, fs)

C2_Witness ==
    /\ pc = "returned"
    /\ \E d, e \in DOMAIN result : result[d] # result[e]
    /\ \E t \in Tasks : task[t].diag

\* C3: when ReadDirectory returns, every task it launched has terminated,
\* after the reducer stored its result or after it reported its failure.
C3_NoTaskOutlivesReturn ==
    pc = "returned" =>
        \A t \in Tasks :
            /\ task[t].pc = "done"
            /\ task[t].diag \/ task[t].document \in DOMAIN result

C3_Witness ==
    /\ pc = "returned"
    /\ \E t \in Tasks : task[t].diag
    /\ \E t \in Tasks : Delivered(t)

\* C4: under fair scheduling the construction terminates: every task
\* finishes, the reducer finishes and ReadDirectory returns an index.
C4_BuildTerminates ==
    ~dir.err =>
    <>(/\ pc = "returned"
       /\ rpc = "done"
       /\ result # None
       /\ \A t \in Tasks : task[t].pc = "done")

C4_Witness ==
    /\ pc = "returned"
    /\ rpc = "done"
    /\ Len(files) >= 2
    /\ \A t \in Tasks : task[t].diag

\* C5: a task whose read failed reports a diagnostic and sends nothing, and
\* the returned index has exactly the documents that were read.
C5_ReadFailureIsLocal ==
    pc = "returned" =>
        /\ \A t \in Tasks :
              ~ReadOk(fs[task[t].document]) => task[t].diag /\ ~Delivered(t)
        /\ DOMAIN result = {files[n] : n \in {m \in 1..Len(files) : ReadOk(fs[files[m]])}}

\* C6: every DocumentID in the returned index is a document whose read
\* succeeded, both the open and the scan of its lines.
C6_OnlyReadDocumentsIndexed ==
    pc = "returned" => \A d \in DOMAIN result : ReadOk(fs[d])

----------------------------------------------------------------------------
(* Properties of the ranking *)

Asked == q.term # ""

Containing(se, term) == {d \in DOMAIN se : term \in DOMAIN se[d]}

Score(d) == CountIdf(result, q.term, d)

SameScore(d, e) == ~TfIdfLess(Score(d), Score(e)) /\ ~TfIdfLess(Score(e), Score(d))

Range(s) == {s[n] : n \in 1..Len(s)}

C8_MostRelevantFirst ==
    (Asked /\ ~q.err /\ ~q.panicked) =>
        \A m, n \in 1..Len(q.result) :
            m < n => ~TfIdfLess(Score(q.result[m]), Score(q.result[n]))

\* C9: documents of equal score appear in ascending DocumentID order, the
\* result does not depend on the iteration order of the map, and when every
\* document has the term the result is all of them in ascending order.
C9_TiesAscendingDocumentID ==
    Asked =>
        /\ \A m, n \in 1..Len(q.result) :
              (m < n /\ SameScore(q.result[m], q.result[n]))
                  => StrLess(q.result[m], q.result[n])
        /\ \A order \in Perms(DOMAIN result) :
              RelevanceLookup(result, q.term, order).result = q.result
        /\ Containing(result, q.term) = DOMAIN result =>
              /\ Range(q.result) = DOMAIN result
              /\ \A m, n \in 1..Len(q.result) :
                    m < n => StrLess(q.result[m], q.result[n])

C9_Witness ==
    /\ Asked
    /\ Len(q.result) >= 3
    /\ Containing(result, q.term) = DOMAIN result
    /\ q.docIDs # q.result

\* C10: the candidates of IndexLookup, and the result of RelevanceLookup,
\* are exactly the DocumentIDs whose counts have the term as a key, each
\* once, and the comparator does not panic.
C10_CandidatesAreTheSet ==
    Asked =>
        /\ Range(q.docIDs) = Containing(result, q.term)
        /\ Len(q.docIDs) = Cardinality(Containing(result, q.term))
        /\ Range(q.result) = Containing(result, q.term)
        /\ Len(q.result) = Cardinality(Containing(result, q.term))
        /\ ~q.panicked

C10_Witness ==
    /\ Asked
    /\ Len(q.docIDs) >= 2
    /\ Containing(result, q.term) # DOMAIN result

\* C11: end to end on /a.txt = "cat dog cat" and /b.txt = "dog dog", in
\* every interleaving and for every iteration order of the map: the index is
\* {a: {cat: 2, dog: 1}, b: {dog: 2}}, "cat" ranks exactly [a], and "dog"
\* ranks both; their scores are equal (idf = ln(2/2) = 0), so they come in
\* ascending DocumentID order, a before b.
C11_EndToEnd ==
    /\ pc = "returned" =>
          result = (FileA :> ("cat" :> 2 @@ "dog" :> 1) @@ FileB :> ("dog" :> 2))
    /\ (Asked /\ q.term = "cat") =>
          /\ q.result = <<FileA>>
          /\ ~q.err /\ ~q.panicked
    /\ (Asked /\ q.term = "dog") =>
          /\ q.result = <<FileA, FileB>>
          /\ SameScore(FileA, FileB)
          /\ ~q.err /\ ~q.panicked

C11_Witness ==
    /\ Asked
    /\ q.term = "dog"
    /\ q.docIDs = <<FileB, FileA>>
    /\ q.result = <<FileA, FileB>>

\* The sum of all counts of a DocTermFrequency over the words of the files.
Total(terms) == Count(terms, "cat") + Count(terms, "dog") + Count(terms, "emu")

\* C12: for a document of the index TermFrequency returns no error and the
\* ratio count/total, total being the sum of all counts of the document; it
\* returns 0 for a term that is no key; for the counts of the words a a b
\* (here cat cat dog) it is 2/3 and 1/3; and over the terms of a non-empty
\* document the ratios share the denominator and their numerators sum to it.
C12_TermFrequencyIsTheRatio ==
    (call.fn = "TermFrequency" /\ call.document \in DOMAIN result) =>
        LET terms == result[call.document]
            r     == call.ret
        IN /\ ~r.err /\ ~r.nil
           /\ DOMAIN terms \subseteq Terms
           /\ call.term \notin DOMAIN terms => r.num = 0 /\ r.den = 1
           /\ call.term \in DOMAIN terms =>
                 /\ r.num = terms[call.term]
                 /\ r.den = Total(terms)
           /\ terms = ("cat" :> 2 @@ "dog" :> 1) =>
                 /\ call.term = "cat" => r.num = 2 /\ r.den = 3
                 /\ call.term = "dog" => r.num = 1 /\ r.den = 3
           /\ \A t \in DOMAIN terms :
                 /\ TermFrequency(result, t, call.document).den = Total(terms)
                 /\ TermFrequency(result, t, call.document).num = Count(terms, t)
           /\ terms # EmptyMap =>
                 Total([t \in DOMAIN terms |->
                          TermFrequency(result, t, call.document).num]) = Total(terms)

C12_Witness ==
    /\ call.fn = "TermFrequency"
    /\ call.document \in DOMAIN result
    /\ result[call.document] = ("cat" :> 2 @@ "dog" :> 1)
    /\ call.term = "cat"
    /\ call.ret.num = 2
    /\ call.ret.den = 3

\* C13: TermFrequency and CountIdf, called for a DocumentID that is no key
\* of the index, return an error and a nil value, whatever the term, and the
\* index is after the call what ReadDirectory built.
C13_MissingDocumentIsAnError ==
    (call.fn \in {"TermFrequency", "CountIdf"} /\ call.document \notin DOMAIN result) =>
        /\ call.ret.err
        /\ call.ret.nil
        /\ result = IndexOf(files, fs)
        /\ searchEngine = result

C13_Witness ==
    /\ call.fn = "CountIdf"
    /\ call.document \notin DOMAIN result
    /\ Containing(result, call.term) # {}
    /\ call.ret.err

NothingStarted ==
    /\ result = None
    /\ files = << >>
    /\ task = << >>
    /\ wg = 0
    /\ rpc = "unborn"
    /\ ~chClosed
    /\ searchEngine = EmptyMap
    /\ q = NoQuery
    /\ call = NoCall

\* C15: when FindFiles fails, every step leaves the program with no index,
\* no extraction task, no reducer and no query made; ReadDirectory returns
\* the error, from where main can only exit with status 1; and FindFiles is
\* never called a second time.
C15_DiscoveryFailureIsFatal ==
    [][/\ dir.err => (NothingStarted' /\ pc' \in {"errReturned", "exit1"})
       /\ (dir.err /\ pc = "FindFiles") => pc' = "errReturned"
       /\ pc = "errReturned" => pc' = "exit1"
       /\ pc # "FindFiles" => pc' # "FindFiles"]_vars

C15_Witness ==
    /\ dir.err
    /\ pc = "exit1"
    /\ NothingStarted

\* The position of the last delivery of DocumentID d.
LastOf(d) == CHOOSE t \in Tasks : files[t] = d /\ \A u \in Tasks : files[u] = d => u <= t

\* C16: after any sequence of deliveries and the close, the index
\* ReduceDocuments hands out has exactly the delivered DocumentIDs as keys,
\* and maps each to the frequency map of its last delivery.
C16_LastWriteWins ==
    pc = "returned" =>
        /\ DOMAIN result = Range(files)
        /\ \A d \in DOMAIN result : result[d] = task[LastOf(d)].wordCounts

C16_Witness ==
    /\ pc = "returned"
    /\ Len(files) = 3
    /\ files[1] = files[3]
    /\ files[2] # files[1]
    /\ task[1].wordCounts # task[3].wordCounts
    /\ result[files[1]] = task[3].wordCounts

\* The reducer is at or past its send only with the channel closed and
\* drained: every task is done and every result sent is in the map.
PublishedWhenDrained ==
    rpc \in {"publish", "done"} =>
        /\ chClosed
        /\ rcv = None
        /\ \A t \in Tasks : task[t].pc = "done"
        /\ \A t \in Tasks : Delivered(t) => task[t].document \in DOMAIN searchEngine

\* What ReadDirectory holds is the finished map of the reducer.
ReceivedIsFinal ==
    result # None => (rpc = "done" /\ result = searchEngine)

\* C17: the reducer sends the SearchEngine only after the delivery channel
\* is closed and drained, and sends it once; the map is written by the
\* reducer's loop body alone, and never after ReadDirectory received it.
C17_PublishedOnceWhenComplete ==
    [][/\ PublishedWhenDrained'
       /\ ReceivedIsFinal'
       /\ searchEngine' # searchEngine => (rpc = "store" /\ rpc' = "range" /\ result = None)
       /\ result' # result => (result = None /\ rpc = "publish" /\ rpc' = "done")
       /\ rpc = "done" => rpc' = "done"]_vars

C17_Witness ==
    /\ pc = "returned"
    /\ rpc = "done"
    /\ result = searchEngine
    /\ Cardinality(DOMAIN result) >= 2
    /\ \E t \in Tasks : task[t].diag

\* C18 as stated: the reducer is handed the results only after every task
\* has finished, so it holds no result while a task is unfinished, and no
\* task is blocked waiting for the reducer.
C18_ReducerAfterAllTasks ==
    /\ (rcv # None \/ searchEngine # EmptyMap) => \A t \in Tasks : task[t].pc = "done"
    /\ \A t \in Tasks : task[t].pc = "Publish" => rpc = "range"

\* C18 as the code has it: a task blocks on its own file read and on its
\* send, which completes only when the reducer receives it; the reducer
\* runs while tasks are unfinished; the coordinator waits for every task
\* before it closes the channel; and no task waits on another task: a task
\* that reads can always step, and a sender steps whenever the reducer is at
\* its receive.
C18_TasksWaitOnlyForReducer ==
    /\ chClosed => \A t \in Tasks : task[t].pc = "done"
    /\ pc \in {"Close", "Recv", "returned"} => (wg = 0 /\ \A t \in Tasks : task[t].pc = "done")
    /\ \A t \in Tasks :
          Delivered(t) =>
              \/ rcv # None /\ rcv.document = task[t].document
              \/ task[t].document \in DOMAIN searchEngine
    /\ \A t \in Tasks :
          /\ task[t].pc \in {"ReadFile", "Scan"} => ENABLED Extractor(t)
          /\ task[t].pc = "Publish" => rpc \in {"unborn", "range", "store"}
          /\ (task[t].pc = "Publish" /\ rpc = "range") => ENABLED RangeRecv(t)

C18_Witness ==
    /\ searchEngine # EmptyMap
    /\ \E t \in Tasks : task[t].pc = "Scan"
    /\ \E t \in Tasks : task[t].pc = "Publish"

\* The tokens of a file: the words of all its lines, in order.
RECURSIVE Flatten(_)
Flatten(lines) == IF lines = << >> THEN << >> ELSE Head(lines) \o Flatten(Tail(lines))

DocTokens(f) == Flatten(f.lines)

\* The number of tokens that are term once in lower case.
Occurrences(tokens, term) ==
    Cardinality({n \in 1..Len(tokens) : ToLower(tokens[n]) = term})

\* C19: in every DocTermFrequency Frequencies produces every count is at
\* least 1, the count of a term is the number of tokens of the document
\* that are the term in lower case, the counts sum to the number of tokens
\* of the document, and a document that opens and has no token is in the
\* index with an empty map.
C19_CountsAreTheTokens ==
    \A t \in Tasks :
        (task[t].pc \in {"Publish", "sent", "done"} /\ ~task[t].diag) =>
            LET wordCounts == task[t].wordCounts
                tokens     == DocTokens(fs[task[t].document])
            IN /\ \A term \in DOMAIN wordCounts : wordCounts[term] >= 1
               /\ \A term \in Terms : Count(wordCounts, term) = Occurrences(tokens, term)
               /\ DOMAIN wordCounts \subseteq Terms
               /\ Total(wordCounts) = Len(tokens)
               /\ (pc = "returned" /\ tokens = << >>) =>
                     /\ task[t].document \in DOMAIN result
                     /\ result[task[t].document] = EmptyMap

\* No task is at or before its send: all have returned.
AllTasksDone == wg = 0 /\ i > Len(files) /\ \A t \in Tasks : task[t].pc = "done"

\* C20: the delivery channel is closed by the close statement of the
\* coordinator alone, once, and with every task done: no task is then
\* blocked on its send or still to send, so none sends on the closed
\* channel.
C20_ClosedOnceAfterAllSends ==
    [][/\ chClosed' => AllTasksDone'
       /\ chClosed' # chClosed => (pc = "Close" /\ ~chClosed /\ AllTasksDone)
       /\ chClosed => (chClosed' /\ pc' # "Close")]_vars

C20_Witness ==
    /\ chClosed
    /\ pc = "Recv"
    /\ rpc = "range"
    /\ \E t \in Tasks : Delivered(t)
    /\ \E t \in Tasks : task[t].diag

\* The divisions RelevanceLookup performs for candidate d: termCount / total
\* in TermFrequency and numDocuments / numDocumentsContaining in
\* InverseDocumentFrequency.
Divisions(d) ==
    [total |-> SumCounts(result[d], DOMAIN result[d]),
     numDocumentsContaining |-> InverseDocumentFrequency(result, q.term).k,
     tfidf |-> CountIdf(result, q.term, d)]

\* C21: in a RelevanceLookup on an index ReadDirectory returned, for every
\* candidate the total of TermFrequency is at least 1 and the number of
\* documents containing the term is at least 1, so no score is the NaN or
\* the infinity of a float64 division by zero.
C21_NoDivisionByZero ==
    (pc = "returned" /\ Asked) =>
        \A n \in 1..Len(q.docIDs) :
            LET d == Divisions(q.docIDs[n])
            IN /\ d.total >= 1
               /\ d.numDocumentsContaining >= 1
               /\ ~d.tfidf.err
               /\ d.tfidf.den = d.total
               /\ d.tfidf.k = d.numDocumentsContaining
               /\ Kind(d.tfidf) \in {"zero", "pos"}

\* A lookup with a candidate on an index that also holds a document
\* without any token, whose total is 0.
C21_Witness ==
    /\ pc = "returned"
    /\ Asked
    /\ Len(q.docIDs) >= 1
    /\ \E d \in DOMAIN result : result[d] = EmptyMap

====
